---- MODULE Spec2Model ----
(***************************************************************************)
(* PDEngine (vllm/entrypoints/disaggregated/pd_engine.py): the coordinator *)
(* of the prefill/decode protocol.                                         *)
(*                                                                         *)
(* One asyncio event loop runs every task, so a step of the model is the   *)
(* code a task runs between two suspension points (await recv, await       *)
(* q.get(), yield).  zmq PUSH sends enqueue and are folded into the step   *)
(* that makes them.                                                        *)
(*                                                                         *)
(* generate() is an async generator: calling it binds the arguments and    *)
(* runs nothing (Call); its body runs from the first __anext__ (GenStart). *)
(*                                                                         *)
(* Line 185 calls self._run_output_handler() with no argument although the *)
(* method is declared (self, socket) at line 117: the call raises          *)
(* TypeError before create_task and before the assignment, so generate()   *)
(* never starts the loops itself.  The rest of generate() runs only on an  *)
(* engine whose output_handler was set by the engine's owner, who has to   *)
(* pass the socket argument: StartOutputHandler.                           *)
(*                                                                         *)
(* Spec lets anything happen that the code allows: any response on the     *)
(* connector channel, faults, shutdown, callers that stop consuming.       *)
(* LiveSpec is the engine with tiers that answer what they are asked and   *)
(* callers that keep consuming, with the fairness of the event loop.       *)
(***************************************************************************)
EXTENDS Integers, Sequences, FiniteSets, TLC

\* ---- bounds ----
MaxCalls == 2          \* generate() calls made on the engine
MaxInbound == 3        \* responses that arrive on the connector channel

Calls == 1..MaxCalls
RequestIds == {"a", "b"}
Params == {"p1", "p2"}                      \* SamplingParams objects callers hold
Features == {"text", "nontext", "lora", "trace", "adapter", "priority"}

\* max_tokens of each SamplingParams object before any generate() call
CallerMaxTokens == [p \in Params |-> IF p = "p1" THEN 50 ELSE 20]

\* line 214: request.sampling_params.max_tokens = 1
PrefillMaxTokens == 1

VARIABLES
    output_handler,   \* self.output_handler: "None" or the state of the task
    log_running,      \* self.log_running
    ctx,              \* self.ctx and the two PUSH sockets made from it
    socket,           \* the PULL socket local to _run_output_handler
    queues,           \* self.queues: request_id -> queue object (named by its call)
    q,                \* contents of the asyncio.Queue each call created
    sp,               \* max_tokens of each SamplingParams object
    to_prefill,       \* messages sent on self.to_prefill, in order
    to_decode,        \* messages sent on self.to_decode, in order
    recvd,            \* responses the output handler has received, in order
    ipc_files,        \* the socket files of the three addresses that exist on disk
    calls             \* the generate() calls: frame of each generator

vars == <<output_handler, log_running, ctx, socket, queues, q, sp,
          to_prefill, to_decode, recvd, ipc_files, calls>>

NoCall == [pc |-> "none", request_id |-> "a", params |-> "p1", feature |-> "text",
           given |-> 0, original_max_tokens |-> 0, finished |-> FALSE,
           taken |-> <<>>, yielded |-> <<>>, error |-> "None",
           found |-> "live"]

\* PDEngine.__init__
Init ==
    /\ output_handler = "None"
    /\ log_running = "None"
    /\ ctx = "live"
    /\ socket = "none"
    /\ queues = << >>
    /\ q = [c \in Calls |-> << >>]
    /\ sp = CallerMaxTokens
    /\ to_prefill = << >>
    /\ to_decode = << >>
    /\ recvd = << >>
    /\ ipc_files = {"decode", "prefill"}   \* the tiers have bound their sockets
    /\ calls = [c \in Calls |-> NoCall]


\* ---- helpers ----
Unsupported(feature) == feature # "text"

\* lines 188-203: the feature gate of generate()
Validate(feature) == IF Unsupported(feature) THEN "NotImplementedError" ELSE "ok"

\* generate() without the duplicate test
IsDuplicateUnchecked(request_id) == FALSE

\* line 204: request_id in self.queues
IsDuplicate(request_id) == request_id \in DOMAIN queues

\* line 185 as if the call gave a coroutine for create_task to wrap
RunOutputHandlerCallBound == "coroutine"

\* line 185: the value of the call self._run_output_handler() that create_task
\* is to wrap.  The method takes (self, socket); called without socket it raises.
RunOutputHandlerCall == "TypeError"

\* lines 144 and 160: self.encoder(request) reads request.sampling_params at the
\* time of the call; the message carries that max_tokens
Encode(request_id, max_tokens) == [request_id |-> request_id, max_tokens |-> max_tokens]

\* lines 209: self.queues[request_id] = q, q being the queue call c created
Register(c, request_id) ==
    [i \in DOMAIN queues \cup {request_id} |-> IF i = request_id THEN c ELSE queues[i]]

\* the response put at the head of the queue instead of its tail
RouteAtHead(response) == [q EXCEPT ![queues[response.request_id]] = <<response>> \o @]

\* the response dropped instead of put into a queue
RouteDropped(response) == q

\* put_nowait on the queue of a call other than the one the key names
RouteAstray(response) ==
    [q EXCEPT ![CHOOSE c \in Calls : c # queues[response.request_id]] = Append(@, response)]

\* line 132: self.queues[response.request_id].put_nowait(response)
Route(response) == [q EXCEPT ![queues[response.request_id]] = Append(@, response)]

\* line 208: asyncio.Queue() is made with the default maxsize
QueueMaxSize == 0

\* a queue that holds one response at most
QueueFullAtOne(queue) == Len(queue) >= 1

\* line 132: put_nowait raises QueueFull when maxsize > 0 and the queue holds
\* maxsize items
QueueFull(queue) == QueueMaxSize > 0 /\ Len(queue) >= QueueMaxSize

\* the loop of _decode never seeing the terminal response
FinishedNever(response) == FALSE

\* line 170: finished = response.finish_reason is not None
Finished(response) == response.finish_reason # "None"

\* _prefill without its success test
PrefillErrorUnchecked(request_id, response) ==
    IF response.request_id # request_id THEN "AssertionError" ELSE "None"

\* lines 149-152: the assertion and the success test of _prefill
PrefillError(request_id, response) ==
    IF response.request_id # request_id THEN "AssertionError"
    ELSE IF ~response.success THEN "Failed Prefill Request."
    ELSE "None"

\* _decode without its success test
DecodeErrorUnchecked(response) == "None"

\* lines 167-169: the success test of _decode
DecodeError(response) ==
    IF ~response.success THEN "Failed Decode Request." ELSE "None"

Raise(c, err) == [calls EXCEPT ![c].pc = "raised", ![c].error = err]

\* What a tier can answer: a response, a terminal response, a failure.  The
\* payload numbers the responses in the order they arrive.
Outcomes ==
    { [success |-> TRUE, finish_reason |-> "None"],
      [success |-> TRUE, finish_reason |-> "stop"],
      [success |-> FALSE, finish_reason |-> "None"] }

\* responses are numbered in the order of their arrival; when the tiers answer
\* as the requests ask, each call needs a prefill answer and a last decode
\* answer on top of the MaxInbound responses counted by the bound
MaxPayload == MaxInbound + 2 * MaxCalls

Responses ==
    { [request_id |-> id, success |-> o.success, finish_reason |-> o.finish_reason,
       payload |-> n] : id \in RequestIds, o \in Outcomes, n \in 1..MaxPayload }

\* ---- the callers ----
\* What callers pass to generate(): every request_id and SamplingParams object
\* with a text prompt, and each unsupported feature once.
CallInputs ==
    [request_id : RequestIds, params : Params, feature : {"text"}]
      \cup [request_id : {"a"}, params : {"p1"}, feature : Features \ {"text"}]

\* generate(prompt, sampling_params, request_id, ...) is called: an async
\* generator object is made, its body has not run yet.
Call(c) ==
    /\ calls[c].pc = "none"
    /\ \A d \in Calls : d < c => calls[d].pc # "none"
    /\ \E in \in CallInputs :
          calls' = [calls EXCEPT ![c] = [NoCall EXCEPT !.pc = "created",
                                          !.request_id = in.request_id,
                                          !.params = in.params, !.feature = in.feature,
                                          !.given = sp[in.params]]]
    /\ UNCHANGED <<output_handler, log_running, ctx, socket, queues, q, sp,
                   to_prefill, to_decode, recvd>>
    /\ UNCHANGED ipc_files

\* The owner of the engine runs _run_output_handler(socket) as a task and keeps
\* it in output_handler.
StartOutputHandler ==
    /\ output_handler = "None"
    /\ output_handler' = "pending"
    /\ UNCHANGED <<log_running, ctx, socket, queues, q, sp, to_prefill, to_decode,
                   recvd, calls>>
    /\ UNCHANGED ipc_files

\* ---- generate() ----
\* First __anext__: lines 183-215 and _prefill up to its q.get() (lines 144-148).
\* found keeps the state of the context as the call found it.
\* shutdown() destroys the context of both PUSH sockets; a send on a socket of
\* a destroyed context raises zmq.ZMQError.
GenStart(c) ==
    LET cl == calls[c]
        starts == output_handler = "None"
        started == ~starts \/ RunOutputHandlerCall # "TypeError"
        gate == Validate(cl.feature)
        sp1 == [sp EXCEPT ![cl.params] = PrefillMaxTokens]
    IN
    /\ cl.pc = "created"
    /\ output_handler' = IF starts /\ started THEN "pending" ELSE output_handler
    /\ log_running' = IF starts /\ started THEN "running" ELSE log_running
    /\ IF ~started THEN
          /\ calls' = [Raise(c, "TypeError") EXCEPT ![c].found = ctx]
          /\ UNCHANGED <<queues, q, sp, to_prefill>>
       ELSE IF gate # "ok" THEN
          /\ calls' = [Raise(c, gate) EXCEPT ![c].found = ctx]
          /\ UNCHANGED <<queues, q, sp, to_prefill>>
       ELSE IF IsDuplicate(cl.request_id) THEN
          /\ calls' = [Raise(c, "ValueError") EXCEPT ![c].found = ctx]
          /\ UNCHANGED <<queues, q, sp, to_prefill>>
       ELSE
          /\ queues' = Register(c, cl.request_id)
          /\ q' = [q EXCEPT ![c] = << >>]
          /\ sp' = sp1
          /\ IF ctx = "live" THEN
                /\ to_prefill' = Append(to_prefill, Encode(cl.request_id, sp1[cl.params]))
                /\ calls' = [calls EXCEPT ![c].pc = "prefill_wait",
                                          ![c].original_max_tokens = sp[cl.params],
                                          ![c].found = ctx]
             ELSE
                /\ to_prefill' = to_prefill
                /\ calls' = [calls EXCEPT ![c].pc = "raised", ![c].error = "ZMQError",
                                          ![c].original_max_tokens = sp[cl.params],
                                          ![c].found = ctx]
    /\ UNCHANGED <<ctx, socket, to_decode, recvd>>
    /\ UNCHANGED ipc_files

\* _prefill resumes from q.get() (lines 148-154) and generate yields (line 216).
PrefillGet(c) ==
    LET cl == calls[c]
        response == Head(q[c])
    IN
    /\ cl.pc = "prefill_wait"
    /\ q[c] # << >>
    /\ q' = [q EXCEPT ![c] = Tail(@)]
    /\ calls' =
          IF PrefillError(cl.request_id, response) # "None" THEN
             [calls EXCEPT ![c].pc = "raised",
                           ![c].error = PrefillError(cl.request_id, response),
                           ![c].taken = Append(@, response)]
          ELSE
             [calls EXCEPT ![c].pc = "yield_prefill",
                           ![c].taken = Append(@, response),
                           ![c].yielded = Append(@, response)]
    /\ UNCHANGED <<output_handler, log_running, ctx, socket, queues, sp,
                   to_prefill, to_decode, recvd>>
    /\ UNCHANGED ipc_files

\* The caller asks for the next element after the prefill response: line 219
\* and _decode up to its first q.get() (lines 160-166).
ResumeAfterPrefill(c) ==
    LET cl == calls[c]
        sp1 == [sp EXCEPT ![cl.params] = cl.original_max_tokens]
    IN
    /\ cl.pc = "yield_prefill"
    /\ sp' = sp1
    /\ IF ctx = "live" THEN
          /\ to_decode' = Append(to_decode, Encode(cl.request_id, sp1[cl.params]))
          /\ calls' = [calls EXCEPT ![c].pc = "decode_wait", ![c].finished = FALSE]
       ELSE
          /\ to_decode' = to_decode
          /\ calls' = Raise(c, "ZMQError")
    /\ UNCHANGED <<output_handler, log_running, ctx, socket, queues, q,
                   to_prefill, recvd>>
    /\ UNCHANGED ipc_files

\* _decode resumes from q.get() (lines 166-171) and generate yields (line 221).
DecodeGet(c) ==
    LET cl == calls[c]
        response == Head(q[c])
    IN
    /\ cl.pc = "decode_wait"
    /\ q[c] # << >>
    /\ q' = [q EXCEPT ![c] = Tail(@)]
    /\ calls' =
          IF DecodeError(response) # "None" THEN
             [calls EXCEPT ![c].pc = "raised", ![c].error = DecodeError(response),
                           ![c].taken = Append(@, response)]
          ELSE
             [calls EXCEPT ![c].pc = "yield_decode",
                           ![c].finished = Finished(response),
                           ![c].taken = Append(@, response),
                           ![c].yielded = Append(@, response)]
    /\ UNCHANGED <<output_handler, log_running, ctx, socket, queues, sp,
                   to_prefill, to_decode, recvd>>
    /\ UNCHANGED ipc_files

\* The caller asks for the next element after a decode response: the loop test
\* of line 165, then either the generator ends or _decode waits again.
ResumeAfterDecode(c) ==
    /\ calls[c].pc = "yield_decode"
    /\ calls' = [calls EXCEPT ![c].pc = IF calls[c].finished THEN "done" ELSE "decode_wait"]
    /\ UNCHANGED <<output_handler, log_running, ctx, socket, queues, q, sp,
                   to_prefill, to_decode, recvd>>
    /\ UNCHANGED ipc_files

\* The caller stops consuming: the generator is closed at its yield (line 216
\* or 221).  generate() has no finally clause, so nothing else runs.
Abandon(c) ==
    /\ calls[c].pc \in {"yield_prefill", "yield_decode"}
    /\ calls' = [calls EXCEPT ![c].pc = "abandoned"]
    /\ UNCHANGED <<output_handler, log_running, ctx, socket, queues, q, sp,
                   to_prefill, to_decode, recvd>>
    /\ UNCHANGED ipc_files

\* ---- _run_output_handler ----
\* The task starts: lines 122-127.  Binding the PULL socket makes the socket
\* file of connector_addr.
OutputHandlerOpen ==
    /\ output_handler = "pending"
    /\ IF ctx = "live"
          THEN /\ output_handler' = "running"
               /\ socket' = "open"
               /\ ipc_files' = ipc_files \cup {"connector"}
          ELSE /\ output_handler' = "failed"
               /\ UNCHANGED <<socket, ipc_files>>
    /\ UNCHANGED <<log_running, ctx, queues, q, sp, to_prefill, to_decode,
                   recvd, calls>>

\* One turn of the loop, lines 129-132: a response pushed by the prefill or the
\* decode instance arrives on the PULL socket and is routed.  A KeyError or a
\* QueueFull leaves through lines 133-138.
Receive(response) ==
    /\ output_handler = "running"
    /\ response.payload = Len(recvd) + 1
    /\ recvd' = Append(recvd, response)
    /\ IF /\ response.request_id \in DOMAIN queues
          /\ ~QueueFull(q[queues[response.request_id]])
       THEN
          /\ q' = Route(response)
          /\ UNCHANGED <<output_handler, socket>>
       ELSE
          /\ output_handler' = "failed"
          /\ socket' = "closed"
          /\ q' = q
    /\ UNCHANGED <<log_running, ctx, queues, sp, to_prefill, to_decode, calls>>
    /\ UNCHANGED ipc_files

\* A turn of the loop on any response the tiers or anyone else may push, while
\* the bound on the responses allows one more.
OutputHandlerRecv(response) ==
    /\ Len(recvd) < MaxInbound
    /\ Receive(response)

\* A turn of the loop in which socket.recv() or decoder.decode() raises (lines
\* 130-131): the exception leaves through lines 133-138 and ends the task.
\* Nothing was decoded, so nothing is added to recvd.
OutputHandlerFault ==
    /\ output_handler = "running"
    /\ output_handler' = "faulted"
    /\ socket' = "closed"
    /\ UNCHANGED <<log_running, ctx, queues, q, sp, to_prefill, to_decode,
                   recvd, ipc_files, calls>>

\* ---- shutdown(), lines 97-111 ----
\* task.cancel(), lines 100-103: a task that has ended stays as it ended
Cancel(task) == IF task \in {"pending", "running"} THEN "cancelled" ELSE task

\* lines 105-107, in the order of the list
IpcPaths == <<"connector", "decode", "prefill">>

\* line 111 without the test of line 110
PathExistsUnchecked(path, files) == TRUE

\* line 110: os.path.exists(socket_path)
PathExists(path, files) == path \in files

\* line 111: os.remove(socket_path)
Remove(path, files) ==
    IF path \in files THEN [files |-> files \ {path}, error |-> "None"]
    ELSE [files |-> files, error |-> "FileNotFoundError"]

\* lines 108-111: the loop over the paths, left at the first error
RECURSIVE RemovePaths(_, _)
RemovePaths(paths, files) ==
    IF paths = << >> THEN [files |-> files, error |-> "None"]
    ELSE IF PathExists(Head(paths), files) THEN
            LET r == Remove(Head(paths), files) IN
            IF r.error # "None" THEN r ELSE RemovePaths(Tail(paths), r.files)
    ELSE RemovePaths(Tail(paths), files)

\* shutdown() as a function of the engine: what it leaves, and what it raises.
\* ctx.destroy() closes every socket of the context, the PULL socket included.
ShutdownOf(e) ==
    LET r == RemovePaths(IpcPaths, e.ipc_files) IN
    [ctx |-> "destroyed",
     log_running |-> Cancel(e.log_running),
     output_handler |-> Cancel(e.output_handler),
     socket |-> IF e.socket = "open" THEN "closed" ELSE e.socket,
     ipc_files |-> r.files,
     error |-> r.error]

\* the part of the engine shutdown() works on
Engine ==
    [ctx |-> ctx, log_running |-> log_running, output_handler |-> output_handler,
     socket |-> socket, ipc_files |-> ipc_files, error |-> "None"]

Shutdown ==
    LET e == ShutdownOf(Engine) IN
    /\ ctx' = e.ctx
    /\ log_running' = e.log_running
    /\ output_handler' = e.output_handler
    /\ socket' = e.socket
    /\ ipc_files' = e.ipc_files
    /\ UNCHANGED <<queues, q, sp, to_prefill, to_decode, recvd, calls>>

Next ==
    \/ \E c \in Calls : Call(c)
    \/ StartOutputHandler
    \/ \E c \in Calls : GenStart(c)
    \/ \E c \in Calls : PrefillGet(c)
    \/ \E c \in Calls : ResumeAfterPrefill(c)
    \/ \E c \in Calls : DecodeGet(c)
    \/ \E c \in Calls : ResumeAfterDecode(c)
    \/ \E c \in Calls : Abandon(c)
    \/ OutputHandlerOpen
    \/ \E response \in Responses : OutputHandlerRecv(response)
    \/ OutputHandlerFault
    \/ Shutdown

Spec == Init /\ [][Next]_vars

\* how many messages or responses of s carry request_id
Count(s, request_id) == Cardinality({i \in 1..Len(s) : s[i].request_id = request_id})

\* ---- the tiers answering as asked, the callers consuming ----
\* A response that ends a decode stream: a finish_reason or success = false.
Terminal(response) == response.finish_reason # "None" \/ ~response.success

\* the responses received that carry request_id, in the order of their arrival
Answers(request_id) == SelectSeq(recvd, LAMBDA r : r.request_id = request_id)

\* The decode request of request_id has been sent and no response after the
\* first one (the prefill answer) has ended its stream.
StreamOpen(request_id) ==
    /\ Count(to_decode, request_id) > 0
    /\ LET answers == Answers(request_id) IN
       \A i \in 2..Len(answers) : ~Terminal(answers[i])

\* The prefill instance answers a prefill request once, with either outcome.
PrefillAnswer(response) ==
    /\ response.payload = Len(recvd) + 1
    /\ Count(to_prefill, response.request_id) > 0
    /\ Count(recvd, response.request_id) = 0
    /\ Receive(response)

\* The decode instance answers a decode request with responses that do not
\* end the stream, as long as the bound allows one more.
DecodeAnswer(response) ==
    /\ response.payload = Len(recvd) + 1
    /\ Len(recvd) < MaxInbound
    /\ ~Terminal(response)
    /\ StreamOpen(response.request_id)
    /\ Receive(response)

\* The decode instance ends the stream of a decode request.
DecodeLastAnswer(response) ==
    /\ response.payload = Len(recvd) + 1
    /\ Terminal(response)
    /\ StreamOpen(response.request_id)
    /\ Receive(response)

\* The steps of call c that its caller drives by asking for the next element.
Consume(c) ==
    \/ GenStart(c)
    \/ PrefillGet(c)
    \/ ResumeAfterPrefill(c)
    \/ DecodeGet(c)
    \/ ResumeAfterDecode(c)

LiveNext ==
    \/ \E c \in Calls : Call(c)
    \/ StartOutputHandler
    \/ \E c \in Calls : Consume(c)
    \/ OutputHandlerOpen
    \/ \E response \in Responses : PrefillAnswer(response)
    \/ \E response \in Responses : DecodeAnswer(response)
    \/ \E response \in Responses : DecodeLastAnswer(response)

\* No shutdown, no fault and no stray response: the output handler keeps
\* running.  The event loop runs every task that can run, each caller keeps
\* asking for the next element, the prefill instance answers and the decode
\* instance ends each stream.
LiveSpec ==
    /\ Init
    /\ [][LiveNext]_vars
    /\ \A c \in Calls : WF_vars(Consume(c))
    /\ WF_vars(OutputHandlerOpen)
    /\ WF_vars(\E response \in Responses : PrefillAnswer(response))
    /\ WF_vars(\E response \in Responses : DecodeLastAnswer(response))

TypeOK ==
    /\ output_handler \in {"None", "pending", "running", "failed", "faulted", "cancelled"}
    /\ log_running \in {"None", "running", "cancelled"}
    /\ ctx \in {"live", "destroyed"}
    /\ socket \in {"none", "open", "closed"}
    /\ DOMAIN queues \subseteq RequestIds
    /\ \A i \in DOMAIN queues : queues[i] \in Calls
    /\ Len(recvd) <= MaxPayload
    /\ ipc_files \subseteq {"connector", "decode", "prefill"}


\* ---- what the claims speak of ----
InProtocol == {"prefill_wait", "yield_prefill", "decode_wait", "yield_decode"}
Started(c) == calls[c].pc \notin {"none", "created"}

\* call c made the registry entry of its request_id
Owns(c) ==
    /\ Started(c)
    /\ calls[c].request_id \in DOMAIN queues
    /\ queues[calls[c].request_id] = c

\* every response ever put in the queue of call c, in the order it was put
Arrivals(c) == calls[c].taken \o q[c]


IsPrefix(s, t) == Len(s) <= Len(t) /\ SubSeq(t, 1, Len(s)) = s

\* the responses the output handler did route: all it received, but the one
\* that made it fail
Routed ==
    IF output_handler = "failed" /\ recvd # << >>
       THEN SubSeq(recvd, 1, Len(recvd) - 1) ELSE recvd

\* C1: the decode request of a request_id is sent at most once, only after its
\* prefill request was sent and after the call took a first response with
\* success=true from its queue; a call whose first response has success=false
\* never sends a decode request.
C1_PrefillThenDecode ==
    /\ \A id \in RequestIds :
          /\ Count(to_decode, id) <= 1
          /\ Count(to_decode, id) = 1 =>
                /\ Count(to_prefill, id) = 1
                /\ \E c \in Calls :
                      /\ Owns(c) /\ calls[c].request_id = id
                      /\ calls[c].taken # << >>
                      /\ calls[c].taken[1].success
    /\ \A c \in Calls :
          (Owns(c) /\ calls[c].taken # << >> /\ ~calls[c].taken[1].success)
             => Count(to_decode, calls[c].request_id) = 0

C1_Witness ==
    \E c, d \in Calls :
       /\ Owns(c) /\ Count(to_decode, calls[c].request_id) = 1
       /\ Owns(d) /\ calls[d].error = "Failed Prefill Request."

\* C2: the prefill message of a call carries max_tokens = 1 and its decode
\* message carries the max_tokens its sampling_params had when generate was
\* called, also when another call in flight was given the same object.
C2_MaxTokensPerPhase ==
    \A c \in Calls : Owns(c) =>
       /\ \A i \in 1..Len(to_prefill) :
             to_prefill[i].request_id = calls[c].request_id
                => to_prefill[i].max_tokens = PrefillMaxTokens
       /\ \A i \in 1..Len(to_decode) :
             to_decode[i].request_id = calls[c].request_id
                => to_decode[i].max_tokens = calls[c].given

\* the index of the first response of s that ends a decode stream (terminal,
\* or failed), Len(s) + 1 when there is none
FirstEnd(s) ==
    IF \E i \in 1..Len(s) : ~s[i].success \/ s[i].finish_reason # "None"
       THEN CHOOSE i \in 1..Len(s) :
               /\ ~s[i].success \/ s[i].finish_reason # "None"
               /\ \A j \in 1..(i - 1) : s[j].success /\ s[j].finish_reason = "None"
       ELSE Len(s) + 1

\* what a call whose queue was given arr may yield at most: the prefill
\* response, then the decode responses up to the first terminal one (included)
\* or the first failed one (excluded)
Expected(arr) ==
    IF arr = << >> \/ ~arr[1].success THEN << >>
    ELSE LET d == Tail(arr)
             e == FirstEnd(d)
             n == IF e <= Len(d) /\ d[e].success THEN e ELSE e - 1
         IN <<arr[1]>> \o SubSeq(d, 1, n)

\* C3: what a call yields is the successful prefill response followed by the
\* decode responses in the order its queue got them, up to and including the
\* first with a finish_reason; the call ends right after yielding that one.
C3_YieldOrder ==
    \A c \in Calls :
       LET y == calls[c].yielded IN
       /\ IsPrefix(y, Expected(Arrivals(c)))
       /\ calls[c].pc = "done" =>
             /\ y = Expected(Arrivals(c))
             /\ Len(y) >= 2
             /\ y[Len(y)].finish_reason # "None"
             /\ \A i \in 2..(Len(y) - 1) : y[i].finish_reason = "None"
       /\ (Len(y) >= 2 /\ y[Len(y)].finish_reason # "None")
             => calls[c].pc \in {"yield_decode", "done", "abandoned"}

C3_Witness ==
    \E c \in Calls :
       /\ calls[c].pc = "done"
       /\ Len(calls[c].yielded) = 3
       /\ calls[c].yielded[1].finish_reason # "None"
       /\ calls[c].yielded[1].payload < calls[c].yielded[2].payload
       /\ calls[c].yielded[2].payload < calls[c].yielded[3].payload

\* C4: the queue of every registered call got exactly the routed responses
\* that carry its request_id, in the order the output handler received them;
\* no other queue got anything.
C4_RoutedInOrder ==
    \A c \in Calls :
       Arrivals(c) =
          IF Owns(c)
             THEN SelectSeq(Routed, LAMBDA r : r.request_id = calls[c].request_id)
             ELSE << >>

C4_Witness ==
    \E c, d \in Calls :
       /\ c # d /\ Owns(c) /\ Owns(d)
       /\ Len(Arrivals(c)) = 2 /\ Len(Arrivals(d)) = 1
       /\ Arrivals(c)[1].payload < Arrivals(d)[1].payload
       /\ Arrivals(d)[1].payload < Arrivals(c)[2].payload

\* C5: a call whose first response has success=false ends with the prefill
\* failure and has yielded nothing; a call that takes a later response with
\* success=false ends there with the decode failure, having yielded exactly
\* the responses it took before.
C5_FailureStops ==
    \A c \in Calls :
       LET t == calls[c].taken IN
       /\ (t # << >> /\ ~t[1].success) =>
             /\ calls[c].pc = "raised"
             /\ calls[c].error = "Failed Prefill Request."
             /\ calls[c].yielded = << >>
             /\ Len(t) = 1
       /\ \A i \in 2..Len(t) : ~t[i].success =>
             /\ i = Len(t)
             /\ calls[c].pc = "raised"
             /\ calls[c].error = "Failed Decode Request."
             /\ calls[c].yielded = SubSeq(t, 1, i - 1)

C5_Witness ==
    \E c \in Calls :
       /\ calls[c].error = "Failed Decode Request."
       /\ Len(calls[c].yielded) = 2
       /\ Len(calls[c].taken) = 3

\* the body of call c starts in this step (first __anext__)
Starts(c) == calls[c].pc = "created" /\ calls'[c].pc # "created"

Ended(c) ==
    \/ calls[c].pc \in {"done", "abandoned"}
    \/ calls[c].error \in {"Failed Prefill Request.", "Failed Decode Request."}

\* C7: once a generate call has ended (done, failed or abandoned), the
\* registry holds no entry for its request_id.
C7_EntryRemovedAtEnd ==
    \A c \in Calls : Ended(c) => calls[c].request_id \notin DOMAIN queues

\* C8: a response whose request_id has no registry entry is dropped and the
\* output handler keeps running.
C8_UnroutedDropped ==
    [][(output_handler = "running" /\ recvd' # recvd
          /\ recvd'[Len(recvd')].request_id \notin DOMAIN queues)
       => (output_handler' = "running" /\ q' = q)]_vars

\* C9: once a generate call has run, the output handler and the liveness
\* reporter have been started, and the output handler runs until shutdown.
C9_LoopsStartedByFirstCall ==
    (\E c \in Calls : Started(c)) =>
       /\ log_running # "None"
       /\ output_handler # "None"
       /\ ctx = "live" => output_handler \in {"pending", "running"}

\* C10: a generate call with a non-text prompt, a LoRA request, a prompt
\* adapter request, trace headers or a priority ends with the unsupported-
\* feature error, makes no registry entry and sends nothing.
C10_UnsupportedRejected ==
    [][\A c \in Calls :
          (Starts(c) /\ Unsupported(calls[c].feature))
          => /\ calls'[c].pc = "raised"
             /\ calls'[c].error = "NotImplementedError"
             /\ queues' = queues
             /\ to_prefill' = to_prefill
             /\ to_decode' = to_decode]_vars

\* C11: shutdown() raises nothing and leaves no background task pending or
\* running, in every state of the engine: before any generate call, after
\* one, and after an earlier shutdown; a second shutdown leaves the engine as
\* the first one left it.
C11_ShutdownIdempotent ==
    LET once == ShutdownOf(Engine)
        twice == ShutdownOf(once) IN
    /\ once.error = "None"
    /\ once.output_handler \notin {"pending", "running"}
    /\ once.log_running \notin {"pending", "running"}
    /\ twice = once

\* shutdown() has run with the output handler running and a request in
\* flight, and removed the three socket files.
C11_Witness ==
    /\ ctx = "destroyed"
    /\ output_handler = "cancelled"
    /\ ipc_files = {}
    /\ \E c \in Calls : calls[c].pc \in InProtocol

C13_NoYieldAfterShutdown ==
    [][ctx = "destroyed"
       => \A c \in Calls : calls'[c].yielded = calls[c].yielded]_vars

\* C14: when the output handler has ended on a transport or decode fault, no
\* registered generate call is left waiting on an empty queue: each one has
\* been failed.
C14_FaultFailsRequests ==
    \A c \in Calls :
       ~ /\ output_handler = "faulted"
         /\ Owns(c)
         /\ calls[c].pc \in {"prefill_wait", "decode_wait"}
         /\ q[c] = << >>

\* C15: the output handler puts every response for a registered request_id
\* into that request's queue in the step that received it and keeps running,
\* however many responses the call has left unread and whether or not its
\* caller still consumes; the queues of the other calls are left alone.
C15_PushNeverBlocks ==
    [][\A response \in Responses :
          (/\ output_handler = "running"
           /\ recvd' = Append(recvd, response)
           /\ response.request_id \in DOMAIN queues)
          => LET c == queues[response.request_id] IN
             /\ output_handler' = "running"
             /\ q'[c] = Append(q[c], response)
             /\ \A d \in Calls \ {c} : q'[d] = q[d]]_vars

\* The caller of one call has stopped consuming and the call has an unread
\* response; the output handler has gone on to route a later response to
\* another call and is still running.
C15_Witness ==
    /\ output_handler = "running"
    /\ \E c, d \in Calls :
          /\ c # d
          /\ calls[c].pc = "abandoned"
          /\ q[c] # << >>
          /\ Arrivals(d) # << >>
          /\ Arrivals(d)[Len(Arrivals(d))].payload > q[c][1].payload

\* C16: every response a generate call finds in its queue, and every element
\* it yields, carries the request_id of the call; the assertion of _prefill
\* never fails.
C16_QueueHoldsOwnResponses ==
    \A c \in Calls :
       /\ \A i \in 1..Len(Arrivals(c)) :
             Arrivals(c)[i].request_id = calls[c].request_id
       /\ \A i \in 1..Len(calls[c].yielded) :
             calls[c].yielded[i].request_id = calls[c].request_id
       /\ calls[c].error # "AssertionError"

\* Two calls with different ids are past prefill, each having taken and yielded
\* a response, with responses of both ids received in between.
C16_Witness ==
    /\ Len(recvd) = MaxInbound
    /\ \E c, d \in Calls :
          /\ calls[c].request_id # calls[d].request_id
          /\ calls[c].yielded # << >>
          /\ calls[d].yielded # << >>
          /\ Len(Arrivals(c)) >= 2

\* C17: when the prefill instance answers every prefill request, the decode
\* instance ends every stream, the output handler keeps running and the caller
\* keeps consuming, every generate call that was made ends, done or raised.
C17_EveryCallEnds ==
    \A c \in Calls :
       (calls[c].pc = "created") ~> (calls[c].pc \in {"done", "raised"})

\* Two calls have run the whole protocol, one to the last decode response and
\* one to a failure.
C17_Witness ==
    \E c, d \in Calls :
       /\ calls[c].pc = "done"
       /\ Len(calls[c].yielded) >= 3
       /\ calls[d].error \in {"Failed Prefill Request.", "Failed Decode Request."}

\* C18: a generate call is rejected as a duplicate only while another call
\* with its request_id is in flight; once that call has ended, the id is
\* accepted again.  (Stated for an engine that has not been shut down.)
C18_DuplicateOnlyInFlight ==
    [][\A c \in Calls :
          (ctx = "live" /\ Starts(c) /\ calls'[c].error = "ValueError")
          => \E d \in Calls \ {c} :
                /\ calls[d].request_id = calls[c].request_id
                /\ calls[d].pc \in InProtocol]_vars

\* C19: in the step that ends a generate call (the last decode response, a
\* prefill failure or a decode failure), the caller's sampling_params has the
\* max_tokens it had when generate was called.  (Stated for a call that shares
\* its sampling_params object with no other call.)
C19_MaxTokensRestored ==
    [][\A c \in Calls :
          (/\ calls[c].pc \in InProtocol
           /\ calls'[c].pc = "done"
                \/ calls'[c].error \in {"Failed Prefill Request.", "Failed Decode Request."}
           /\ \A d \in Calls \ {c} : Started(d) => calls[d].params # calls[c].params)
          => sp'[calls[c].params] = calls[c].given]_vars

====
